---- MODULE Spec2Model ----
(***************************************************************************)
(* A model of src/core/utils/cli.ts: the argv flag reader, the process     *)
(* exit registrar and the startup script command resolver.                 *)
(*                                                                         *)
(* JavaScript strings are modelled as sequences of one-character strings,  *)
(* so that trim, startsWith, includes, split and join are computed the way *)
(* the runtime computes them.                                              *)
(***************************************************************************)
EXTENDS Integers, Sequences, FiniteSets, TLC

VARIABLES
    \* argv(flag)
    flags,          \* process.argv
    flag,           \* the parameter of argv
    index,          \* the loop variable of argv (0-based, as in the code)
    argvPc,         \* "scan" while the loop runs, "done" after a return
    argvResult,     \* the value argv returned
    \* registerProcessExit(fn)
    listeners,      \* process's listener lists, one per termination event
    terminated,     \* the `terminated` variable of each registration's closure
    calls,          \* how many times each registration's fn was invoked
    stack,          \* the JavaScript call stack (emit and wrapper frames)
    fired,          \* how many termination triggers were delivered so far
    firedSince,     \* per registration: triggers delivered since it registered
    \* createStartupScriptCommand(startupScript, options)
    scriptArg,      \* the startupScript argument as it was passed
    startupScript,  \* the startupScript variable (reassigned at line 85)
    appLocation,    \* options.appLocation (<<>> when unset)
    files,          \* the paths that exist on disk
    scriptPc,       \* "start", "check", "done" or "exited"
    scriptResult,   \* the value createStartupScriptCommand returned
    errors,         \* the calls logger.error received, in order
    existsCalls     \* how many times fs.existsSync was called

argvVars == <<flags, flag, index, argvPc, argvResult>>
exitVars == <<listeners, terminated, calls, stack, fired, firedSince>>
scriptVars ==
    <<scriptArg, startupScript, appLocation, files, scriptPc, scriptResult, errors, existsCalls>>
vars == <<argvVars, exitVars, scriptVars>>

----------------------------------------------------------------------------
(* Strings *)

WhiteSpace == {" "}

RECURSIVE TrimStart(_)
TrimStart(s) ==
    IF s # <<>> /\ Head(s) \in WhiteSpace THEN TrimStart(Tail(s)) ELSE s

RECURSIVE TrimEnd(_)
TrimEnd(s) ==
    IF s # <<>> /\ s[Len(s)] \in WhiteSpace
    THEN TrimEnd(SubSeq(s, 1, Len(s) - 1))
    ELSE s

\* String.prototype.trim
Trim(s) == TrimEnd(TrimStart(s))

\* String.prototype.startsWith
StartsWith(s, p) == Len(s) >= Len(p) /\ SubSeq(s, 1, Len(p)) = p

\* String.prototype.includes, for a one-character needle
Includes(s, c) == \E i \in 1..Len(s) : s[i] = c

\* Array.prototype.includes
ArrayIncludes(arr, x) == \E i \in 1..Len(arr) : arr[i] = x

\* the position of the first c in s (s includes c)
IndexOf(s, c) == CHOOSE i \in 1..Len(s) : s[i] = c /\ \A j \in 1..(i - 1) : s[j] # c

\* String.prototype.split, for a one-character separator
RECURSIVE Split(_, _)
Split(s, c) ==
    IF ~Includes(s, c)
    THEN <<s>>
    ELSE <<SubSeq(s, 1, IndexOf(s, c) - 1)>>
            \o Split(SubSeq(s, IndexOf(s, c) + 1, Len(s)), c)

\* Array.prototype.join, for a one-character separator
RECURSIVE Join(_, _)
Join(parts, c) ==
    IF parts = <<>> THEN <<>>
    ELSE IF Len(parts) = 1 THEN parts[1]
    ELSE parts[1] \o <<c>> \o Join(Tail(parts), c)

\* JavaScript truthiness of a string: !!s
Truthy(s) == s # <<>>

DashDash == <<"-", "-">>

----------------------------------------------------------------------------
(* The values argv returns: null, a boolean or a string *)

Pending == [tag |-> "pending", b |-> FALSE, s |-> <<>>]
Null == [tag |-> "null", b |-> FALSE, s |-> <<>>]
Bool(x) == [tag |-> "bool", b |-> x, s |-> <<>>]
Str(x) == [tag |-> "str", b |-> FALSE, s |-> x]

----------------------------------------------------------------------------
(* argv *)

MaxArgs == 3

\* The tokens process.argv is drawn from.
Tokens ==
    { <<"-", "-", "a">>,                          \* --a
      <<"-", "-", "b">>,                          \* --b
      <<"-", "-", "a", " ">>,                     \* --a followed by a space
      <<" ", "-", "-", "b">>,                     \* --b after a space
      <<"-", "-", "a", "=", "v">>,                \* --a=v
      <<"-", "-", "a", "=">>,                     \* --a=
      <<"-", "-", "a", "=", " ">>,                \* --a= and a space
      <<"-", "-", "a", "=", "v", "=", "w">>,      \* --a=v=w
      <<"-", "-", "a", " ", "=", " ", "v", " ">>, \* --a = v , with spaces
      <<"-", "-", "b", "=", "v">>,                \* --b=v
      <<"v">>,                                    \* v
      <<" ", "w", " ">>,                          \* w between spaces
      <<" ">> }                                   \* a space

FlagNames == { <<"-", "-", "a">>, <<"-", "-", "b">> }

RECURSIVE SeqsUpTo(_, _)
SeqsUpTo(S, n) ==
    IF n = 0 THEN {<<>>}
    ELSE LET shorter == SeqsUpTo(S, n - 1)
         IN  shorter \cup {Append(q, x) : q \in {r \in shorter : Len(r) = n - 1}, x \in S}

ArgvInit ==
    /\ flags \in SeqsUpTo(Tokens, MaxArgs)
    /\ flag \in FlagNames
    /\ index = 0
    /\ argvPc = "scan"
    /\ argvResult = Pending

\* flags[index], with the code's 0-based index
Entry == flags[index + 1]

\* return <value>
ArgvReturn(value) ==
    /\ argvResult' = value
    /\ argvPc' = "done"
    /\ UNCHANGED <<flags, flag, index>>
    /\ UNCHANGED <<exitVars, scriptVars>>

\* the end of the loop body: index++
ArgvContinue ==
    /\ index' = index + 1
    /\ UNCHANGED <<flags, flag, argvPc, argvResult>>
    /\ UNCHANGED <<exitVars, scriptVars>>

InLoop == argvPc = "scan" /\ index < Len(flags)

\* line 26 is false: the entry does not start with "--"
ArgvSkipEntry ==
    /\ InLoop
    /\ ~StartsWith(Entry, DashDash)
    /\ ArgvContinue

\* lines 27-35: const [key, value] = entry.split("=")
ArgvKeyValue ==
    /\ InLoop
    /\ StartsWith(Entry, DashDash)
    /\ Includes(Entry, "=")
    /\ LET key == Split(Entry, "=")[1]
           value == Split(Entry, "=")[2]
       IN  IF flag = Trim(key)
           THEN ArgvReturn(IF Truthy(value) THEN Str(Trim(value)) ELSE Null)
           ELSE ArgvContinue

\* lines 38-47: the entry is the flag itself
ArgvKey ==
    /\ InLoop
    /\ StartsWith(Entry, DashDash)
    /\ ~Includes(Entry, "=")
    /\ flag = Trim(Entry)
    /\ IF index + 2 > Len(flags)
       THEN ArgvReturn(Bool(TRUE))                     \* nextEntry === undefined
       ELSE LET nextEntry == Trim(flags[index + 2])
            IN  IF StartsWith(nextEntry, DashDash) THEN ArgvReturn(Bool(TRUE))
                ELSE IF Truthy(nextEntry) THEN ArgvReturn(Str(nextEntry))
                ELSE ArgvContinue

\* lines 48-51: another "--" entry without "="
ArgvFlagNotFound ==
    /\ InLoop
    /\ StartsWith(Entry, DashDash)
    /\ ~Includes(Entry, "=")
    /\ flag # Trim(Entry)
    /\ ArgvReturn(Bool(FALSE))

\* line 55: the loop ended
ArgvEnd ==
    /\ argvPc = "scan"
    /\ index >= Len(flags)
    /\ ArgvReturn(Null)

ArgvNext ==
    \/ ArgvSkipEntry
    \/ ArgvKeyValue
    \/ ArgvKey
    \/ ArgvFlagNotFound
    \/ ArgvEnd

\* no call of argv is in progress
ArgvIdle ==
    /\ flags = <<>>
    /\ flag = <<>>
    /\ index = 0
    /\ argvPc = "idle"
    /\ argvResult = Pending

----------------------------------------------------------------------------
(* registerProcessExit *)

NumRegs == 2
MaxTriggers == 3

Regs == 1..NumRegs
Events == {"SIGINT", "SIGTERM", "exit"}

\* a call of process.emit(event): the listeners it has still to call
EmitFrame(todo) ==
    [kind |-> "emit", reg |-> 0, pc |-> 0, running |-> FALSE, todo |-> todo]

\* a call of a registration's wrapper: pc 0 is the test of line 62, pc i the
\* i-th statement of the if's body; running while fn() has not returned
WrapperFrame(r) ==
    [kind |-> "wrapper", reg |-> r, pc |-> 0, running |-> FALSE, todo |-> <<>>]

ExitInit ==
    /\ listeners = [e \in Events |-> <<>>]
    /\ terminated = [r \in Regs |-> FALSE]
    /\ calls = [r \in Regs |-> 0]
    /\ stack = <<>>
    /\ fired = 0
    /\ firedSince = [r \in Regs |-> 0]

Registered == {listeners["exit"][i] : i \in 1..Len(listeners["exit"])}

Top == stack[Len(stack)]
Pop == SubSeq(stack, 1, Len(stack) - 1)
ReplaceTop(f) == [stack EXCEPT ![Len(stack)] = f]

InWrapper == stack # <<>> /\ Top.kind = "wrapper"
InEmit == stack # <<>> /\ Top.kind = "emit"

\* line 59: each call of registerProcessExit declares its own `terminated`
GuardSharedByAll(r) == 1
GuardOf(r) == r

\* line 62: if (!terminated)
GuardAlwaysOpen(r) == TRUE
GuardOpen(r) == ~terminated[GuardOf(r)]

\* lines 63-64: the statements of the if's body, in order
WrapperBodyCallFirst == <<"call", "set">>
WrapperBody == <<"set", "call">>

\* lines 58-71, called from the top level: the next registration
RegisterProcessExit(r) ==
    /\ stack = <<>>
    /\ r \notin Registered
    /\ \A q \in Regs : q < r => q \in Registered
    /\ terminated' = [terminated EXCEPT ![GuardOf(r)] = FALSE]
    /\ listeners' = [e \in Events |-> Append(listeners[e], r)]
    /\ UNCHANGED <<calls, stack, fired, firedSince>>
    /\ UNCHANGED <<argvVars, scriptVars>>

\* a trigger is delivered: the runtime calls the listeners the event has now
Deliver(e) ==
    /\ fired < MaxTriggers
    /\ fired' = fired + 1
    /\ firedSince' = [r \in Regs |-> IF r \in Registered THEN firedSince[r] + 1
                                     ELSE firedSince[r]]
    /\ stack' = Append(stack, EmitFrame(listeners[e]))
    /\ UNCHANGED <<listeners, terminated, calls>>
    /\ UNCHANGED <<argvVars, scriptVars>>

\* lines 68-70: SIGINT, SIGTERM or exit fires while no handler runs
Trigger(e) ==
    /\ stack = <<>>
    /\ Deliver(e)

\* line 64: fn itself causes a trigger while it runs (process.emit, process.exit)
FnTriggers(e) ==
    /\ InWrapper
    /\ Top.running
    /\ Deliver(e)

\* the runtime calls the next listener of the event
EmitNext ==
    /\ InEmit
    /\ Top.todo # <<>>
    /\ stack' = Append(ReplaceTop(EmitFrame(Tail(Top.todo))), WrapperFrame(Head(Top.todo)))
    /\ UNCHANGED <<listeners, terminated, calls, fired, firedSince>>
    /\ UNCHANGED <<argvVars, scriptVars>>

\* every listener of the event was called
EmitDone ==
    /\ InEmit
    /\ Top.todo = <<>>
    /\ stack' = Pop
    /\ UNCHANGED <<listeners, terminated, calls, fired, firedSince>>
    /\ UNCHANGED <<argvVars, scriptVars>>

\* line 62: if (!terminated)
WrapperTest ==
    /\ InWrapper
    /\ Top.pc = 0
    /\ stack' = IF GuardOpen(Top.reg) THEN ReplaceTop([Top EXCEPT !.pc = 1]) ELSE Pop
    /\ UNCHANGED <<listeners, terminated, calls, fired, firedSince>>
    /\ UNCHANGED <<argvVars, scriptVars>>

AtStatement(stmt) ==
    /\ InWrapper
    /\ ~Top.running
    /\ Top.pc \in 1..Len(WrapperBody)
    /\ WrapperBody[Top.pc] = stmt

\* line 63: terminated = true
WrapperSetTerminated ==
    /\ AtStatement("set")
    /\ terminated' = [terminated EXCEPT ![GuardOf(Top.reg)] = TRUE]
    /\ stack' = ReplaceTop([Top EXCEPT !.pc = @ + 1])
    /\ UNCHANGED <<listeners, calls, fired, firedSince>>
    /\ UNCHANGED <<argvVars, scriptVars>>

\* line 64: fn() is called
WrapperCallFn ==
    /\ AtStatement("call")
    /\ calls' = [calls EXCEPT ![Top.reg] = @ + 1]
    /\ stack' = ReplaceTop([Top EXCEPT !.running = TRUE])
    /\ UNCHANGED <<listeners, terminated, fired, firedSince>>
    /\ UNCHANGED <<argvVars, scriptVars>>

\* line 64: fn() returns
FnReturn ==
    /\ InWrapper
    /\ Top.running
    /\ stack' = ReplaceTop([Top EXCEPT !.running = FALSE, !.pc = @ + 1])
    /\ UNCHANGED <<listeners, terminated, calls, fired, firedSince>>
    /\ UNCHANGED <<argvVars, scriptVars>>

\* lines 65-66: the wrapper returns
WrapperReturn ==
    /\ InWrapper
    /\ ~Top.running
    /\ Top.pc > Len(WrapperBody)
    /\ stack' = Pop
    /\ UNCHANGED <<listeners, terminated, calls, fired, firedSince>>
    /\ UNCHANGED <<argvVars, scriptVars>>

ExitNext ==
    \/ \E r \in Regs : RegisterProcessExit(r)
    \/ \E e \in Events : Trigger(e)
    \/ \E e \in Events : FnTriggers(e)
    \/ EmitNext
    \/ EmitDone
    \/ WrapperTest
    \/ WrapperSetTerminated
    \/ WrapperCallFn
    \/ FnReturn
    \/ WrapperReturn

\* registerProcessExit is not in use
ExitIdle == ExitInit

----------------------------------------------------------------------------
(* createStartupScriptCommand *)

Npm == <<"n", "p", "m">>
Yarn == <<"y", "a", "r", "n">>
Npx == <<"n", "p", "x">>

\* process.cwd()
Cwd == <<"/", "w">>

\* The startup script references createStartupScriptCommand is called with.
StartupScripts ==
    { Npm \o <<":", "s">>,                        \* npm:s
      Yarn \o <<":", "s">>,                       \* yarn:s
      Npx \o <<":", "s">>,                        \* npx:s
      Npm \o <<":", "s", ":", "t">>,              \* npm:s:t
      Npx \o <<":", "s", ":", ":", "t">>,         \* npx:s::t
      Yarn \o <<":">>,                            \* yarn:
      <<"p">> \o Npm \o <<":", "s">>,             \* pnpm:s
      <<" ">> \o Npx \o <<":", "s">>,             \* npx:s after a space
      <<":", "s">>,                               \* :s
      <<"/", "w", ":", "s">>,                     \* /w:s
      <<"s">>,                                    \* s
      <<".", "/", "s">>,                          \* ./s
      <<".", ".", "/", "s">>,                     \* ../s
      <<"d", "/", "s">>,                          \* d/s
      <<"/", "w", "/", "s">>,                     \* /w/s
      <<"/", "x">>,                               \* /x
      Npm }                                       \* npm

\* The values of options.appLocation; <<>> is undefined (or the empty string).
AppLocations == { <<>>, <<"/", "w", "/", "d">>, <<"d">>, <<"/", "x">> }

\* The paths that may exist on disk.
Paths ==
    { <<"/", "w", "/", "s">>, <<"/", "w", "/", "d", "/", "s">>, <<"/", "s">>,
      <<"/", "x">>, <<"/", "x", "/", "s">>, <<"/", "w", "/", "n", "p", "m">> }

ScriptInit ==
    /\ scriptArg \in StartupScripts
    /\ startupScript = scriptArg
    /\ appLocation \in AppLocations
    /\ files \in SUBSET Paths
    /\ scriptPc = "start"
    /\ scriptResult = Pending
    /\ errors = <<>>
    /\ existsCalls = 0

\* path.isAbsolute (POSIX)
IsAbsolute(p) == StartsWith(p, <<"/">>)

\* path.resolve's normalisation of the segments of an absolute path
RECURSIVE NormalizeSegments(_, _)
NormalizeSegments(segs, acc) ==
    IF segs = <<>> THEN acc
    ELSE IF Head(segs) = <<>> \/ Head(segs) = <<".">>
         THEN NormalizeSegments(Tail(segs), acc)
    ELSE IF Head(segs) = <<".", ".">>
         THEN NormalizeSegments(Tail(segs),
                                IF acc = <<>> THEN acc ELSE SubSeq(acc, 1, Len(acc) - 1))
    ELSE NormalizeSegments(Tail(segs), Append(acc, Head(segs)))

\* path.resolve(from, to) (POSIX): the arguments are taken from the right until
\* the path is absolute, process.cwd() is used if none is, and the result is
\* normalised
PathResolve(from, to) ==
    LET joined == IF IsAbsolute(to) THEN to
                  ELSE IF IsAbsolute(from) THEN from \o <<"/">> \o to
                  ELSE Cwd \o <<"/">> \o from \o <<"/">> \o to
    IN  <<"/">> \o Join(NormalizeSegments(Split(joined, "/"), <<>>), "/")

\* line 84: const cwd = appLocation || process.cwd()
ResolveBaseIgnoresAppLocation == Cwd
ResolveBase == IF Truthy(appLocation) THEN appLocation ELSE Cwd

\* line 75: const [npmOrYarnBin, ...npmOrYarnScript] = startupScript.split(":")
NpmOrYarnBin == Head(Split(startupScript, ":"))
NpmOrYarnScriptFirstOnly == <<Head(Tail(Split(startupScript, ":")))>>
NpmOrYarnScript == Tail(Split(startupScript, ":"))

\* line 76 and line 78: the binaries that make a command
RunBinaries == <<Npm, Yarn>>
ExecBinariesWithPnpm == <<Npx, <<"p">> \o Npm>>
ExecBinaries == <<Npx>>

\* line 91: the fatal argument of logger.error
FatalFlagOff == FALSE
FatalFlag == TRUE

\* logger.error(message, fatal) may end the process when fatal is set
LoggerErrorOutcomes(fatal) == IF fatal THEN {"done", "exited"} ELSE {"done"}

ScriptReturn(value) ==
    /\ scriptResult' = value
    /\ scriptPc' = "done"
    /\ UNCHANGED <<scriptArg, appLocation, files>>
    /\ UNCHANGED <<argvVars, exitVars>>

\* lines 76-77: `${npmOrYarnBin} run ${npmOrYarnScript.join(":")} --if-present`
ScriptRunCommand ==
    /\ scriptPc = "start"
    /\ Includes(startupScript, ":")
    /\ ArrayIncludes(RunBinaries, NpmOrYarnBin)
    /\ ScriptReturn(Str(NpmOrYarnBin \o <<" ", "r", "u", "n", " ">>
                        \o Join(NpmOrYarnScript, ":")
                        \o <<" ", "-", "-", "i", "f", "-", "p", "r", "e", "s", "e", "n", "t">>))
    /\ UNCHANGED <<startupScript, errors, existsCalls>>

\* lines 78-79: `${npmOrYarnBin} ${npmOrYarnScript.join(":")}`
ScriptExecCommand ==
    /\ scriptPc = "start"
    /\ Includes(startupScript, ":")
    /\ ~ArrayIncludes(RunBinaries, NpmOrYarnBin)
    /\ ArrayIncludes(ExecBinaries, NpmOrYarnBin)
    /\ ScriptReturn(Str(NpmOrYarnBin \o <<" ">> \o Join(NpmOrYarnScript, ":")))
    /\ UNCHANGED <<startupScript, errors, existsCalls>>

\* lines 80 and 94: neither branch is taken, return null
ScriptUnknownBinary ==
    /\ scriptPc = "start"
    /\ Includes(startupScript, ":")
    /\ ~ArrayIncludes(RunBinaries, NpmOrYarnBin)
    /\ ~ArrayIncludes(ExecBinaries, NpmOrYarnBin)
    /\ ScriptReturn(Null)
    /\ UNCHANGED <<startupScript, errors, existsCalls>>

\* lines 81-86: the reference is a path
ScriptResolvePath ==
    /\ scriptPc = "start"
    /\ ~Includes(startupScript, ":")
    /\ startupScript' = IF ~IsAbsolute(startupScript)
                        THEN PathResolve(ResolveBase, startupScript)
                        ELSE startupScript
    /\ scriptPc' = "check"
    /\ UNCHANGED <<scriptArg, appLocation, files, scriptResult, errors, existsCalls>>
    /\ UNCHANGED <<argvVars, exitVars>>

\* lines 88-89: fs.existsSync(startupScript) is true
ScriptFound ==
    /\ scriptPc = "check"
    /\ startupScript \in files
    /\ existsCalls' = existsCalls + 1
    /\ ScriptReturn(Str(startupScript))
    /\ UNCHANGED <<startupScript, errors>>

\* lines 90-92 and 94: fs.existsSync(startupScript) is false
ScriptNotFound ==
    /\ scriptPc = "check"
    /\ startupScript \notin files
    /\ existsCalls' = existsCalls + 1
    /\ errors' = Append(errors, [script |-> startupScript, fatal |-> FatalFlag])
    /\ \E outcome \in LoggerErrorOutcomes(FatalFlag) :
          /\ scriptPc' = outcome
          /\ scriptResult' = IF outcome = "done" THEN Null ELSE Pending
    /\ UNCHANGED <<scriptArg, startupScript, appLocation, files>>
    /\ UNCHANGED <<argvVars, exitVars>>

ScriptNext ==
    \/ ScriptRunCommand
    \/ ScriptExecCommand
    \/ ScriptUnknownBinary
    \/ ScriptResolvePath
    \/ ScriptFound
    \/ ScriptNotFound

\* no call of createStartupScriptCommand is in progress
ScriptIdle ==
    /\ scriptArg = <<>>
    /\ startupScript = <<>>
    /\ appLocation = <<>>
    /\ files = {}
    /\ scriptPc = "idle"
    /\ scriptResult = Pending
    /\ errors = <<>>
    /\ existsCalls = 0

----------------------------------------------------------------------------
(* Specifications: one per function of the module *)

InitArgv == ArgvInit /\ ExitIdle /\ ScriptIdle
SpecArgv == InitArgv /\ [][ArgvNext]_vars

InitExit == ArgvIdle /\ ExitInit /\ ScriptIdle
SpecExit == InitExit /\ [][ExitNext]_vars

InitScript == ArgvIdle /\ ExitIdle /\ ScriptInit
SpecScript == InitScript /\ [][ScriptNext]_vars

----------------------------------------------------------------------------
(* What the claims say, in the claims' own terms *)

\* the text before the first c of s, and the text after it
BeforeFirst(s, c) == SubSeq(s, 1, IndexOf(s, c) - 1)
AfterFirst(s, c) == SubSeq(s, IndexOf(s, c) + 1, Len(s))

\* a token of the form --key=value
IsKeyValueToken(tok) == StartsWith(tok, DashDash) /\ Includes(tok, "=")

\* a --key=value token whose trimmed key is the flag
MatchesAsKeyValue(tok, f) == IsKeyValueToken(tok) /\ Trim(BeforeFirst(tok, "=")) = f

\* a bare "--" token that is the flag after trimming
MatchesAsKey(tok, f) == StartsWith(tok, DashDash) /\ ~Includes(tok, "=") /\ Trim(tok) = f

\* a token matches the flag: it equals the flag after trimming, or it is a
\* --key=value token whose trimmed key equals the flag
MatchesFlag(tok, f) == Trim(tok) = f \/ MatchesAsKeyValue(tok, f)

\* the first matching token is at position i (1-based)
FirstMatch(i) ==
    /\ i \in 1..Len(flags)
    /\ MatchesFlag(flags[i], flag)
    /\ \A j \in 1..(i - 1) : ~MatchesFlag(flags[j], flag)

\* a "--" token without "=" that is not the flag: where the scan of the code ends
IsOtherKey(tok, f) == StartsWith(tok, DashDash) /\ ~Includes(tok, "=") /\ Trim(tok) # f

\* C1: if no token matches the flag, argv returns null, also when the list
\* holds other "--" tokens.
C1_AbsentFlagIsNull ==
    (argvPc = "done" /\ \A i \in 1..Len(flags) : ~MatchesFlag(flags[i], flag))
        => argvResult = Null

\* C2: argv does not stop at a "--" token that does not match: when a token
\* matches and only non-matching tokens come before it, the result is not the
\* not-found result.
C2_ScanPassesOtherFlags ==
    (argvPc = "done" /\ \E i \in 1..Len(flags) :
        /\ FirstMatch(i)
        /\ StartsWith(flags[i], DashDash)
        /\ \E j \in 1..(i - 1) : StartsWith(flags[j], DashDash))
        => argvResult # Bool(FALSE)

\* C3: when the first matching token is --key=value, argv returns the trimmed
\* text after "=", and null when that trimmed text is empty; never the empty
\* string.  (Stated for lists in which the scan reaches the token and for a
\* value without a further "=".)
C3_KeyValueTrimmedOrNull ==
    \A i \in 1..Len(flags) :
        (/\ argvPc = "done"
         /\ FirstMatch(i)
         /\ MatchesAsKeyValue(flags[i], flag)
         /\ ~Includes(AfterFirst(flags[i], "="), "=")
         /\ \A j \in 1..(i - 1) : ~IsOtherKey(flags[j], flag))
            => /\ argvResult # Str(<<>>)
               /\ argvResult = IF Trim(AfterFirst(flags[i], "=")) = <<>>
                               THEN Null
                               ELSE Str(Trim(AfterFirst(flags[i], "=")))

\* C4: when the first matching token is the bare flag, argv returns true if it
\* is the last token or the next token starts with "--", and otherwise the next
\* token trimmed when that is not empty; never null or false.
C4_BareFlagTrueOrNext ==
    \A i \in 1..Len(flags) :
        (argvPc = "done" /\ FirstMatch(i) /\ MatchesAsKey(flags[i], flag))
            => IF i = Len(flags) THEN argvResult = Bool(TRUE)
               ELSE IF StartsWith(flags[i + 1], DashDash) THEN argvResult = Bool(TRUE)
               ELSE IF StartsWith(Trim(flags[i + 1]), DashDash) THEN TRUE
               ELSE IF Trim(flags[i + 1]) # <<>> THEN argvResult = Str(Trim(flags[i + 1]))
               ELSE TRUE

\* C5: whatever triggers fire, a registration's fn is invoked at most once, and
\* it has been invoked exactly once when a trigger fired after the registration
\* and its handlers have returned.
C5_FnAtMostOnce ==
    \A r \in Regs :
        /\ calls[r] <= 1
        /\ (stack = <<>> /\ firedSince[r] >= 1) => calls[r] = 1

\* C5 witness: two or more triggers fired and fn ran once.
C5_Witness ==
    /\ stack = <<>>
    /\ \E r \in Regs : firedSince[r] >= 2 /\ calls[r] = 1

\* C9: while fn executes its registration's guard is already true, and no
\* second invocation of the same fn is on the stack.
C9_GuardSetBeforeFn ==
    \A i \in 1..Len(stack) :
        stack[i].running =>
            /\ terminated[stack[i].reg]
            /\ \A j \in 1..Len(stack) :
                  (stack[j].running /\ stack[j].reg = stack[i].reg) => j = i

\* C9 witness: fn is still running, it fired a trigger, and the wrapper of the
\* same registration was called again and returned without a second invocation.
C9_Witness ==
    \E i \in 1..Len(stack) :
        /\ stack[i].running
        /\ i < Len(stack)
        /\ Top.kind = "emit"
        /\ \A k \in 1..Len(Top.todo) : Top.todo[k] # stack[i].reg
        /\ calls[stack[i].reg] = 1

KnownBinaries == {Npm, Yarn, Npx}

\* C6: for a reference with ":", the binary is the text before the first ":"
\* and the script all the text after it; npm and yarn give
\* "<binary> run <script> --if-present", npx gives "<binary> <script>", without
\* a check of the file system and without a log.
C6_PackageManagerCommand ==
    (Includes(scriptArg, ":") /\ BeforeFirst(scriptArg, ":") \in KnownBinaries) =>
        /\ existsCalls = 0
        /\ errors = <<>>
        /\ scriptPc \in {"start", "done"}
        /\ scriptPc = "done" =>
              scriptResult =
                 IF BeforeFirst(scriptArg, ":") = Npx
                 THEN Str(Npx \o <<" ">> \o AfterFirst(scriptArg, ":"))
                 ELSE Str(BeforeFirst(scriptArg, ":") \o <<" ", "r", "u", "n", " ">>
                          \o AfterFirst(scriptArg, ":")
                          \o <<" ", "-", "-", "i", "f", "-", "p", "r", "e", "s", "e", "n", "t">>)

\* C6 witness: a command was made from a script that itself holds a ":".
C6_Witness ==
    /\ scriptPc = "done"
    /\ Includes(scriptArg, ":")
    /\ BeforeFirst(scriptArg, ":") \in KnownBinaries
    /\ Includes(AfterFirst(scriptArg, ":"), ":")
    /\ scriptResult.tag = "str"

\* the absolute path of a reference without ":": the reference itself when it
\* is absolute, else resolved against options.appLocation, or against the
\* current working directory when appLocation is unset
AbsoluteScript ==
    IF IsAbsolute(scriptArg) THEN scriptArg
    ELSE IF appLocation = <<>> THEN PathResolve(Cwd, scriptArg)
    ELSE PathResolve(appLocation, scriptArg)

\* C7: a reference without ":" is made absolute; if that path exists it is
\* returned and nothing is logged; if not, logger.error is called exactly once,
\* with fatal true, and the function returns null.
C7_PathOrFatalError ==
    ~Includes(scriptArg, ":") =>
        /\ scriptPc = "done" =>
              IF AbsoluteScript \in files
              THEN scriptResult = Str(AbsoluteScript) /\ errors = <<>>
              ELSE /\ scriptResult = Null
                   /\ Len(errors) = 1
                   /\ errors[1] = [script |-> AbsoluteScript, fatal |-> TRUE]
        /\ scriptPc = "exited" =>
              /\ AbsoluteScript \notin files
              /\ Len(errors) = 1
              /\ errors[1].fatal = TRUE

\* C7 witness: a relative reference, with appLocation set, was not found.
C7_Witness ==
    /\ scriptPc = "done"
    /\ ~Includes(scriptArg, ":")
    /\ ~IsAbsolute(scriptArg)
    /\ appLocation # <<>>
    /\ scriptResult = Null
    /\ Len(errors) = 1

\* C8: a reference with ":" whose binary is not npm, yarn or npx gives null
\* without a call of logger.error and without a check of the file system.
C8_UnknownBinarySilent ==
    (Includes(scriptArg, ":") /\ BeforeFirst(scriptArg, ":") \notin KnownBinaries) =>
        /\ existsCalls = 0
        /\ errors = <<>>
        /\ scriptPc \in {"start", "done"}
        /\ scriptPc = "done" => scriptResult = Null

\* C8 witness: null was returned for an empty binary prefix.
C8_Witness ==
    /\ scriptPc = "done"
    /\ Includes(scriptArg, ":")
    /\ BeforeFirst(scriptArg, ":") = <<>>
    /\ scriptResult = Null

====
